---------------------------- MODULE Spec2Model ----------------------------
(***************************************************************************)
(* Model registry and chat router of examples/streamlit/slop_with_models.py *)
(*                                                                         *)
(* The module-level dict MODEL_CLIENT_MAP maps a model id to the OpenAI    *)
(* client of the endpoint that serves it.  initialize_model_map rebuilds   *)
(* it by probing every configured endpoint in order; chat and list_models  *)
(* read it.  A Python dict keeps insertion order, so the registry is a     *)
(* sequence of [key, client] entries with pairwise distinct keys.          *)
(***************************************************************************)
EXTENDS Integers, Sequences, FiniteSets, TLC

\* Environment indices MODEL_ENDPOINT_0 .. MODEL_ENDPOINT_<MaxIndex-1> that
\* may be set; every higher index is unset.
MaxIndex == 3
\* Number of initialize_model_map calls a behaviour may make.
MaxInits == 2
\* range(1000) of the endpoint-loading loop.
EnvRange == 1000

VARIABLES
    environ,            \* MODEL_ENDPOINT_<i>: "" when unset or empty, else the URL
    ENDPOINTS,          \* the descriptor list built at import time
    MODEL_CLIENT_MAP,   \* the registry, in insertion order
    pc,                 \* "start": initialize_model_map never called;
                        \* "running": inside its loop; "done": it returned
    calls,              \* number of initialize_model_map calls started
    probed,             \* probe outcome of every endpoint the running (or
                        \* last) call has processed, in ENDPOINTS order
    prev,               \* registry and probe outcomes at the time the
                        \* running (or last) call began
    handled             \* the request handled by the step that led here

vars == <<environ, ENDPOINTS, MODEL_CLIENT_MAP, pc, calls, probed, prev, handled>>

-----------------------------------------------------------------------------
(* Python values *)

\* Truthiness of a str: only the empty string is falsy.
Truthy(s) == s # ""

\* An optional str: None, or a string.
None == [given |-> FALSE, id |-> ""]
Some(s) == [given |-> TRUE, id |-> s]

\* `x or y` for an optional str x.
OrElse(x, y) == IF x.given /\ Truthy(x.id) THEN x ELSE y

\* dict.get(key, default) on a dict modelled as a function on its keys.
Get(d, k, default) == IF k \in DOMAIN d THEN d[k] ELSE default

Range(s) == {s[i] : i \in DOMAIN s}

-----------------------------------------------------------------------------
(* The insertion-ordered dict MODEL_CLIENT_MAP *)

Keys(map) == [i \in DOMAIN map |-> map[i].key]

KeySet(map) == {map[i].key : i \in DOMAIN map}

HasKey(map, k) == \E i \in DOMAIN map : map[i].key = k

\* map[k] for a key that is present.
Lookup(map, k) == map[CHOOSE i \in DOMAIN map : map[i].key = k].client

\* map[k] = c: a present key keeps its position and takes the new value, a
\* new key goes to the end.
SetItem(map, k, c) ==
    IF HasKey(map, k)
    THEN [i \in DOMAIN map |->
            IF map[i].key = k THEN [key |-> k, client |-> c] ELSE map[i]]
    ELSE Append(map, [key |-> k, client |-> c])

-----------------------------------------------------------------------------
(* Endpoint descriptors *)

Indices == 0 .. ((IF MaxIndex < EnvRange THEN MaxIndex ELSE EnvRange) - 1)

UrlOf(i) == "http://host" \o ToString(i)

EndpointName(i) == "endpoint_" \o ToString(i)

Descriptor(i, url) ==
    [name |-> EndpointName(i), base_url |-> url, api_key |-> "not-needed"]

\* Mutant: the loop ends at the first index that is not set.
RECURSIVE LoadUntilGap(_, _)
LoadUntilGap(env, i) ==
    IF i \notin DOMAIN env THEN <<>>
    ELSE IF Truthy(env[i])
         THEN <<Descriptor(i, env[i])>> \o LoadUntilGap(env, i + 1)
         ELSE <<>>

\* The loop `for i in range(1000)`: indices in ascending order, an unset or
\* empty MODEL_ENDPOINT_<i> skipped.
RECURSIVE LoadFrom(_, _)
LoadFrom(env, i) ==
    IF i \notin DOMAIN env THEN <<>>
    ELSE IF Truthy(env[i])
         THEN <<Descriptor(i, env[i])>> \o LoadFrom(env, i + 1)
         ELSE LoadFrom(env, i + 1)

LoadEndpoints(env) == LoadFrom(env, 0)

\* OpenAI(base_url=..., api_key=...): a new client object per call of
\* initialize_model_map and endpoint.
NewClient(ep, call) == [endpoint |-> ep.name, base_url |-> ep.base_url, call |-> call]

\* Mutant: the fallback key named after the address instead of the endpoint.
DefaultModelOfUrl(ep) == ep.base_url \o ":default"

DefaultModel(ep) == ep.name \o ":default"

-----------------------------------------------------------------------------
(* What a backend may answer to client.models.list() *)

Failed == [ok |-> FALSE, models |-> <<>>]
Listed(ids) == [ok |-> TRUE, models |-> ids]

\* Model lists a backend may report; "" stands for an entry without id.
ModelLists ==
    { <<>>,
      <<"m1", "m2">>,
      <<"m2", "m3">>,
      <<"", "m1">>,
      <<" ">>,
      <<"endpoint_2:default">> }

ProbeOutcomes == {Failed} \cup {Listed(l) : l \in ModelLists}

-----------------------------------------------------------------------------
(* initialize_model_map *)

\* Mutant: the registry is not cleared.
KeepStale(map) == map

\* MODEL_CLIENT_MAP.clear()
Cleared(map) == <<>>

\* Mutant: the fallback entry added only when its key is absent.
AddFallbackIfAbsent(map, ep, client) ==
    IF HasKey(map, ep.name \o ":default") THEN map
    ELSE Append(map, [key |-> ep.name \o ":default", client |-> client])

\* The except branch: the fallback entry is assigned unconditionally.
AddFallback(map, ep, client) == SetItem(map, DefaultModel(ep), client)

\* One model of a successful listing: a falsy id is skipped, a present id
\* is kept as it is, a new id is added.
AddModel(map, model_id, client) ==
    IF Truthy(model_id)
    THEN IF HasKey(map, model_id) THEN map ELSE SetItem(map, model_id, client)
    ELSE map

\* `for m in model_list`
RECURSIVE AddModels(_, _, _)
AddModels(map, ids, client) ==
    IF ids = <<>> THEN map
    ELSE AddModels(AddModel(map, Head(ids), client), Tail(ids), client)

\* Mutant: an endpoint probed by an earlier call is not probed again.
ProcessEndpointOnce(map, ep, outcome, call) ==
    IF call > 1 THEN map
    ELSE IF outcome.ok THEN AddModels(map, outcome.models, NewClient(ep, call))
    ELSE AddFallback(map, ep, NewClient(ep, call))

\* One iteration of `for ep in ENDPOINTS`.
ProcessEndpoint(map, ep, outcome, call) ==
    LET client == NewClient(ep, call) IN
    IF outcome.ok THEN AddModels(map, outcome.models, client)
    ELSE AddFallback(map, ep, client)

\* Mutant: the except branch ends in `return`.
ReturnOnFailure(outcome, p) ==
    IF outcome.ok /\ p < Len(ENDPOINTS) THEN "running" ELSE "done"

\* Where control goes after the iteration for position p: the except branch
\* ends in `continue`, so both outcomes go on to the next endpoint.
AfterEndpoint(outcome, p) == IF p < Len(ENDPOINTS) THEN "running" ELSE "done"

NoRequest == [op |-> "none"]

\* Lines 115-120: clear, and return at once when nothing is configured.
initialize_begin ==
    /\ calls < MaxInits
    /\ prev' = [map |-> MODEL_CLIENT_MAP, probed |-> probed]
    /\ MODEL_CLIENT_MAP' = Cleared(MODEL_CLIENT_MAP)
    /\ calls' = calls + 1
    /\ probed' = <<>>
    /\ pc' = IF ENDPOINTS = <<>> THEN "done" ELSE "running"
    /\ handled' = NoRequest
    /\ UNCHANGED <<environ, ENDPOINTS>>

\* The call `__main__` makes before app.run.
Startup == pc = "start" /\ initialize_begin

\* A later call, on demand.
Rebuild == pc = "done" /\ initialize_begin

\* A backend answers a rebuild's probe as it answered the probe before.
Answers(p) == IF calls > 1 THEN {prev.probed[p]} ELSE ProbeOutcomes

probe_endpoint ==
    /\ pc = "running"
    /\ LET p == Len(probed) + 1 IN
       \E outcome \in Answers(p) :
          /\ MODEL_CLIENT_MAP' =
                ProcessEndpoint(MODEL_CLIENT_MAP, ENDPOINTS[p], outcome, calls)
          /\ probed' = Append(probed, outcome)
          /\ pc' = AfterEndpoint(outcome, p)
    /\ handled' = NoRequest
    /\ UNCHANGED <<environ, ENDPOINTS, calls, prev>>

\* What a backend may answer to the probe of a later call: what it answered
\* before, or a failure, or an empty or a different listing.
AnswersAnew(p) ==
    IF calls > 1
    THEN {prev.probed[p], Failed, Listed(<<>>), Listed(<<"m2", "m3">>)}
    ELSE ProbeOutcomes

\* One iteration of the loop, the backends free to answer differently from
\* one call to the next.
probe_endpoint_anew ==
    /\ pc = "running"
    /\ LET p == Len(probed) + 1 IN
       \E outcome \in AnswersAnew(p) :
          /\ MODEL_CLIENT_MAP' =
                ProcessEndpoint(MODEL_CLIENT_MAP, ENDPOINTS[p], outcome, calls)
          /\ probed' = Append(probed, outcome)
          /\ pc' = AfterEndpoint(outcome, p)
    /\ handled' = NoRequest
    /\ UNCHANGED <<environ, ENDPOINTS, calls, prev>>

-----------------------------------------------------------------------------
(* POST /chat and GET /models *)

\* Mutant: the content of the last message instead of the first.
LastMessageText(messages) ==
    IF messages # <<>>
    THEN Get(messages[Len(messages)], "content", "nothing")
    ELSE "nothing"

\* Mutant: a missing content gives the empty string.
MessageTextOrEmpty(messages) ==
    IF messages # <<>> THEN Get(messages[1], "content", "") ELSE ""

\* Line 187: the content of the first message, "nothing" without one.
MessageText(messages) ==
    IF messages # <<>> THEN Get(messages[1], "content", "nothing") ELSE "nothing"

\* Mutant: the last key instead of the first.
LastKey(map) == IF map # <<>> THEN Some(map[Len(map)].key) ELSE None

\* `list(MODEL_CLIENT_MAP.keys())[0] if MODEL_CLIENT_MAP else None`
FirstKey(map) == IF map # <<>> THEN Some(map[1].key) ELSE None

\* Lines 188-190: `body.model or (...)`.
ResolveModel(map, model) == OrElse(model, FirstKey(map))

\* Mutant: `model_id and model_id not in MODEL_CLIENT_MAP`.
NotFoundUnlessMissing(map, model_id) ==
    /\ model_id.given /\ Truthy(model_id.id)
    /\ ~HasKey(map, model_id.id)

\* Line 192: `not model_id or model_id not in MODEL_CLIENT_MAP`.
NotFound(map, model_id) ==
    \/ ~(model_id.given /\ Truthy(model_id.id))
    \/ ~HasKey(map, model_id.id)

\* Line 194: the one answer for a model that cannot be resolved.
ErrorNotFound ==
    [status |-> 404, body |-> [error |-> "Model not found or no models available"]]

\* Mutant: the client of the first entry, whatever the model id.
ClientOfFirst(map, model_id) == map[1].client

\* Line 196: `MODEL_CLIENT_MAP[model_id]`.
ClientFor(map, model_id) == Lookup(map, model_id)

\* What Flask answers when a handler raises outside its try block.
InternalServerError == [status |-> 500, body |-> [error |-> "Internal Server Error"]]

\* Lines 198-200: the chat-completion call sent to the backend.
Completion(client, model_id, message) ==
    [client |-> client, model |-> model_id,
     messages |-> <<[role |-> "user", content |-> message]>>]

\* Mutant: the text of what the backend raised is replaced by a fixed one.
AnswerMasked(completion) ==
    IF completion.ok
    THEN [status |-> 200,
          body |-> [choices |-> <<[message |-> [content |-> completion.text]]>>]]
    ELSE [status |-> 500, body |-> [error |-> "Internal Server Error"]]

\* Lines 204-212: the backend's answer, or the text of what it raised.
Answer(completion) ==
    IF completion.ok
    THEN [status |-> 200,
          body |-> [choices |-> <<[message |-> [content |-> completion.text]]>>]]
    ELSE [status |-> 500, body |-> [error |-> completion.text]]

\* The handler: its response and the outbound calls it made.
chat(map, body, completion) ==
    LET message == MessageText(body.messages)
        model_id == ResolveModel(map, body.model)
    IN  IF NotFound(map, model_id)
        THEN [resp |-> ErrorNotFound, sent |-> <<>>]
        ELSE IF ~HasKey(map, model_id.id)
        THEN [resp |-> InternalServerError, sent |-> <<>>]   \* KeyError, line 196
        ELSE [resp |-> Answer(completion),
              sent |-> <<Completion(ClientFor(map, model_id.id), model_id.id, message)>>]

list_models(map) == [status |-> 200, body |-> [models |-> Keys(map)]]

\* Request bodies: the model field absent, empty, registered or unknown.
RequestModels ==
    {None, Some(""), Some("m2"), Some("endpoint_2:default"), Some("m9")}

RequestMessages ==
    { <<>>,
      <<[role |-> "user", content |-> "hi"]>>,
      <<[role |-> "user"]>>,
      <<[role |-> "system", content |-> "be brief"], [role |-> "user", content |-> "hi"]>> }

ChatBodies == [model : RequestModels, messages : RequestMessages]

\* What client.chat.completions.create may do: answer, or raise.
Completions == {[ok |-> TRUE, text |-> "hello"], [ok |-> FALSE, text |-> "Connection error."]}

\* Mutant: a backend failure takes the model out of the registry.
chat_handler_evicting ==
    /\ handled = NoRequest
    /\ \E body \in ChatBodies, completion \in Completions :
          LET r == chat(MODEL_CLIENT_MAP, body, completion) IN
          /\ handled' = [op |-> "chat", body |-> body, resp |-> r.resp, sent |-> r.sent,
                         replies |-> [i \in DOMAIN r.sent |-> completion]]
          /\ MODEL_CLIENT_MAP' =
                IF r.sent # <<>> /\ ~completion.ok
                THEN SelectSeq(MODEL_CLIENT_MAP, LAMBDA e : e.key # r.sent[1].model)
                ELSE MODEL_CLIENT_MAP
    /\ UNCHANGED <<environ, ENDPOINTS, pc, calls, probed, prev>>

\* A request is taken up once the one before it has been answered.
chat_handler ==
    /\ handled = NoRequest
    /\ \E body \in ChatBodies, completion \in Completions :
          LET r == chat(MODEL_CLIENT_MAP, body, completion) IN
          handled' = [op |-> "chat", body |-> body, resp |-> r.resp, sent |-> r.sent,
                      \* what the backend did with each call sent
                      replies |-> [i \in DOMAIN r.sent |-> completion]]
    /\ UNCHANGED <<environ, ENDPOINTS, MODEL_CLIENT_MAP, pc, calls, probed, prev>>

list_models_handler ==
    /\ handled = NoRequest
    /\ handled' = [op |-> "list_models", resp |-> list_models(MODEL_CLIENT_MAP),
                   sent |-> <<>>]
    /\ UNCHANGED <<environ, ENDPOINTS, MODEL_CLIENT_MAP, pc, calls, probed, prev>>

\* The handler returns and its response goes out.
respond ==
    /\ handled # NoRequest
    /\ handled' = NoRequest
    /\ UNCHANGED <<environ, ENDPOINTS, MODEL_CLIENT_MAP, pc, calls, probed, prev>>

\* The server handles requests once `__main__` has initialized the registry,
\* or without any initialization when the module is imported by a WSGI server.
chat_request == pc # "running" /\ chat_handler

list_models_request == pc # "running" /\ list_models_handler

\* Requests handled by other threads while a call of initialize_model_map runs.
chat_concurrent == pc = "running" /\ chat_handler

list_models_concurrent == pc = "running" /\ list_models_handler

-----------------------------------------------------------------------------
\* Every choice of the indices that are set.
Environments ==
    { [i \in Indices |-> IF i \in S THEN UrlOf(i) ELSE ""] : S \in SUBSET Indices }

Init ==
    /\ environ \in Environments
    /\ ENDPOINTS = LoadEndpoints(environ)
    /\ MODEL_CLIENT_MAP = <<>>
    /\ pc = "start"
    /\ calls = 0
    /\ probed = <<>>
    /\ prev = [map |-> <<>>, probed |-> <<>>]
    /\ handled = NoRequest

\* The program as shipped: one initialization, then requests.
Next ==
    \/ Startup
    \/ probe_endpoint
    \/ chat_request
    \/ list_models_request
    \/ respond

Spec == Init /\ [][Next]_vars

\* The registry rebuilt on demand while the server handles requests.
NextRebuild ==
    \/ Startup
    \/ Rebuild
    \/ probe_endpoint
    \/ chat_request
    \/ list_models_request
    \/ chat_concurrent
    \/ list_models_concurrent
    \/ respond

SpecRebuild == Init /\ [][NextRebuild]_vars

\* The registry rebuilt while the backends change.
NextChange ==
    \/ Startup
    \/ Rebuild
    \/ probe_endpoint_anew

SpecChange == Init /\ [][NextChange]_vars

-----------------------------------------------------------------------------
(* Properties of the registry after initialize_model_map *)

Min(S) == CHOOSE x \in S : \A y \in S : x <= y

\* The client the running (or last) call built for the endpoint at position p.
ClientAt(p) ==
    [endpoint |-> ENDPOINTS[p].name, base_url |-> ENDPOINTS[p].base_url, call |-> calls]

\* Positions of the endpoints whose listing succeeded and contained id.
Reporters(id) ==
    {p \in DOMAIN probed : probed[p].ok /\ id \in Range(probed[p].models)}

FailedAt(p) == p \in DOMAIN probed /\ ~probed[p].ok

\* The registry holds key k with client c.
Maps(k, c) ==
    \E i \in DOMAIN MODEL_CLIENT_MAP :
        MODEL_CLIENT_MAP[i].key = k /\ MODEL_CLIENT_MAP[i].client = c

\* C1: after initialize_model_map, every model id that two or more
\* successfully probed endpoints reported maps to the client of the first of
\* them in configured order.
C1_FirstReporterOwnsDuplicate ==
    pc = "done" =>
        \A p \in DOMAIN probed : \A j \in DOMAIN probed[p].models :
            LET id == probed[p].models[j] IN
            (Truthy(id) /\ Cardinality(Reporters(id)) >= 2)
                => Maps(id, ClientAt(Min(Reporters(id))))

\* C2: after initialize_model_map on a non-empty descriptor list, every
\* descriptor whose probe failed has exactly one entry, keyed
\* <name>:default and holding that descriptor's own client, and no other
\* key holds its client.
C2_FailedProbeHasOwnFallback ==
    (pc = "done" /\ ENDPOINTS # <<>>) =>
        \A p \in DOMAIN ENDPOINTS :
            FailedAt(p) =>
                LET fallback == ENDPOINTS[p].name \o ":default" IN
                /\ Cardinality({i \in DOMAIN MODEL_CLIENT_MAP :
                                    MODEL_CLIENT_MAP[i].key = fallback}) = 1
                /\ Maps(fallback, ClientAt(p))
                /\ \A i \in DOMAIN MODEL_CLIENT_MAP :
                       MODEL_CLIENT_MAP[i].client = ClientAt(p)
                           => MODEL_CLIENT_MAP[i].key = fallback

\* A failed endpoint_2 behind an endpoint that listed a model named
\* endpoint_2:default, and behind another failed endpoint.
C2_Witness ==
    /\ pc = "done"
    /\ Len(ENDPOINTS) = 3
    /\ probed[1] = Listed(<<"endpoint_2:default">>)
    /\ FailedAt(2)
    /\ FailedAt(3)

-----------------------------------------------------------------------------
(* Properties of the chat router *)

\* The answer to a chat request naming a model id the registry lacks.
ModelNotFound ==
    [status |-> 404, body |-> [error |-> "Model not found or no models available"]]

ChatHandled == handled.op = "chat"

\* C3: a chat request whose explicit model id is not a key of the registry
\* is answered with ModelNotFound and makes no outbound call.
C3_UnknownModelIsRefused ==
    (/\ ChatHandled
     /\ handled.body.model.given
     /\ handled.body.model.id \notin KeySet(MODEL_CLIENT_MAP))
        => (handled.resp = ModelNotFound /\ handled.sent = <<>>)

\* C4 as stated: with an empty descriptor list, after initialize_model_map
\* the model list is empty and a chat request without model id fails with
\* an outcome other than ModelNotFound, without any outbound call.
C4_NoModelsAvailableIsDistinct ==
    (ENDPOINTS = <<>> /\ pc = "done") =>
        /\ MODEL_CLIENT_MAP = <<>>
        /\ handled.op = "list_models" => handled.resp.body.models = <<>>
        /\ (ChatHandled /\ ~handled.body.model.given) =>
              /\ handled.resp.status \in {404, 503}
              /\ handled.resp # ModelNotFound
              /\ handled.sent = <<>>

\* C4 as amended: with an empty descriptor list, after initialize_model_map
\* the model list is empty and a chat request without model id gets the
\* same 404 answer as a request for an unknown model, without any outbound
\* call.
C4_EmptyConfigurationServesNothing ==
    (ENDPOINTS = <<>> /\ pc = "done") =>
        /\ MODEL_CLIENT_MAP = <<>>
        /\ handled.op = "list_models" =>
              (handled.resp.status = 200 /\ handled.resp.body.models = <<>>)
        /\ (ChatHandled /\ ~handled.body.model.given) =>
              /\ handled.resp.status = 404
              /\ handled.resp.body.error = "Model not found or no models available"
              /\ handled.sent = <<>>

C4_Witness ==
    /\ ENDPOINTS = <<>>
    /\ pc = "done"
    /\ ChatHandled
    /\ ~handled.body.model.given
    /\ handled.resp.status = 404

\* Positions of the processed endpoints that put a key into the registry
\* when they were reached: a failed probe, or a listing with a non-empty id.
Inserting ==
    {p \in DOMAIN probed :
        \/ ~probed[p].ok
        \/ \E j \in DOMAIN probed[p].models : Truthy(probed[p].models[j])}

\* The key the running (or last) call of initialize_model_map inserted first.
FirstInserted ==
    LET p == Min(Inserting)
        ids == probed[p].models
    IN  IF probed[p].ok
        THEN ids[Min({j \in DOMAIN ids : Truthy(ids[j])})]
        ELSE ENDPOINTS[p].name \o ":default"

\* C5: a chat request without model id against a non-empty registry makes
\* one outbound call, for the key inserted first by the most recent
\* initialization and through the client the registry holds for that key.
C5_DefaultIsFirstInserted ==
    (ChatHandled /\ ~handled.body.model.given /\ MODEL_CLIENT_MAP # <<>>) =>
        /\ Len(handled.sent) = 1
        /\ handled.sent[1].model = FirstInserted
        /\ Maps(FirstInserted, handled.sent[1].client)

\* endpoint_0 serves [m1, m2], endpoint_1 serves [m2, m3]: the request goes
\* to m1 on endpoint_0.
C5_Witness ==
    /\ pc = "done"
    /\ Len(ENDPOINTS) >= 2
    /\ probed[1] = Listed(<<"m1", "m2">>)
    /\ probed[2] = Listed(<<"m2", "m3">>)
    /\ ChatHandled
    /\ ~handled.body.model.given
    /\ Len(handled.sent) = 1
    /\ handled.sent[1].model = "m1"
    /\ handled.sent[1].client.endpoint = ENDPOINTS[1].name

\* C6: a chat request whose explicit model id is a key of the registry makes
\* one outbound call, with that model id and through the client the registry
\* holds for it; for <name>:default of a descriptor whose probe failed that
\* is the descriptor's own client.
C6_ExplicitModelUsesItsClient ==
    (/\ ChatHandled
     /\ handled.body.model.given
     /\ handled.body.model.id \in KeySet(MODEL_CLIENT_MAP)) =>
        LET id == handled.body.model.id IN
        /\ Len(handled.sent) = 1
        /\ handled.sent[1].model = id
        /\ Maps(id, handled.sent[1].client)
        /\ \A p \in DOMAIN probed :
              (FailedAt(p) /\ id = ENDPOINTS[p].name \o ":default")
                  => handled.sent[1].client = ClientAt(p)

\* endpoint_2's probe failed behind an endpoint that listed models; a request
\* for endpoint_2:default is sent through endpoint_2's client.
C6_Witness ==
    /\ pc = "done"
    /\ Len(ENDPOINTS) = 3
    /\ probed[1] = Listed(<<"m1", "m2">>)
    /\ FailedAt(3)
    /\ ChatHandled
    /\ handled.body.model = Some("endpoint_2:default")
    /\ Len(handled.sent) = 1
    /\ handled.sent[1].client.endpoint = "endpoint_2"

-----------------------------------------------------------------------------
(* Properties of repeated and unfinished initialization *)

\* The registry a call of initialize_model_map builds when the endpoints
\* answer as they answered the call before.
RECURSIVE BuildFrom(_, _)
BuildFrom(map, p) ==
    IF p > Len(ENDPOINTS) THEN map
    ELSE BuildFrom(ProcessEndpoint(map, ENDPOINTS[p], prev.probed[p], calls), p + 1)

Rebuilt == BuildFrom(<<>>, 1)

\* The handled request was answered as it would be against registry map.
AnsweredFrom(map) ==
    \/ /\ handled.op = "list_models"
       /\ handled.resp = list_models(map)
    \/ /\ handled.op = "chat"
       /\ \E completion \in Completions :
             LET r == chat(map, handled.body, completion) IN
             handled.resp = r.resp /\ handled.sent = r.sent

\* C7: a request handled while a re-initialization is running is answered
\* from the complete registry of before the re-initialization or from the
\* complete registry it builds, never from an emptied or half-filled one.
C7_RebuildIsAtomicForReaders ==
    (pc = "running" /\ calls > 1 /\ handled # NoRequest) =>
        (AnsweredFrom(prev.map) \/ AnsweredFrom(Rebuilt))

\* C8: a second call of initialize_model_map with the same descriptors and
\* the same probe outcomes leaves the same set of keys as the first.
C8_SameOutcomesSameKeys ==
    (pc = "done" /\ calls > 1) =>
        KeySet(MODEL_CLIENT_MAP) = KeySet(prev.map)

\* A second call has returned, over a failed endpoint and two endpoints
\* that list a common model.
C8_Witness ==
    /\ pc = "done"
    /\ calls = 2
    /\ Len(ENDPOINTS) = 3
    /\ probed = prev.probed
    /\ probed[1] = Listed(<<"m1", "m2">>)
    /\ probed[2] = Listed(<<"m2", "m3">>)
    /\ FailedAt(3)
    /\ KeySet(MODEL_CLIENT_MAP) = {"m1", "m2", "m3", "endpoint_2:default"}

\* C9: a chat request handled before the first initialize_model_map call has
\* processed all descriptors, or without any call, is refused with an
\* outcome other than ModelNotFound.
C9_NotYetInitializedIsDistinct ==
    (ChatHandled /\ calls <= 1 /\ pc # "done") =>
        /\ handled.sent = <<>>
        /\ handled.resp.status # 200
        /\ handled.resp # ModelNotFound

\* The processed endpoint at position p left its keys in the registry.
Contributed(p) ==
    IF probed[p].ok
    THEN \A j \in DOMAIN probed[p].models :
            Truthy(probed[p].models[j])
                => probed[p].models[j] \in KeySet(MODEL_CLIENT_MAP)
    ELSE (ENDPOINTS[p].name \o ":default") \in KeySet(MODEL_CLIENT_MAP)

\* C10: a failed probe does not end initialize_model_map: while it runs the
\* next descriptor can be processed, and when it has returned every
\* descriptor was processed in order and each descriptor behind a failed one
\* left its models or its own fallback entry.
C10_FailureDoesNotAbort ==
    /\ pc = "running" =>
          (Len(probed) < Len(ENDPOINTS) /\ ENABLED probe_endpoint)
    /\ pc = "done" =>
          /\ Len(probed) = Len(ENDPOINTS)
          /\ \A p \in DOMAIN probed :
                (\E q \in 1 .. (p - 1) : FailedAt(q)) => Contributed(p)

\* Listings and a failure behind a failed first endpoint.
C10_Witness ==
    /\ pc = "done"
    /\ Len(ENDPOINTS) = 3
    /\ FailedAt(1)
    /\ probed[2] = Listed(<<"m1", "m2">>)
    /\ FailedAt(3)
    /\ Keys(MODEL_CLIENT_MAP) =
          <<ENDPOINTS[1].name \o ":default", "m1", "m2", "endpoint_2:default">>

-----------------------------------------------------------------------------
(* Properties of the outbound chat call *)

\* C11: a chat request makes at most one outbound call, and when the backend
\* fails that call the answer is the 500 failure carrying the backend's
\* error text.
C11_BackendErrorSurfacedOnce ==
    ChatHandled =>
        /\ Len(handled.sent) <= 1
        /\ Len(handled.replies) = Len(handled.sent)
        /\ \A i \in DOMAIN handled.sent :
              ~handled.replies[i].ok =>
                  /\ handled.resp.status = 500
                  /\ handled.resp.body.error = handled.replies[i].text

\* A resolved backend raised, and the request was answered with its text.
C11_Witness ==
    /\ ChatHandled
    /\ Len(handled.sent) = 1
    /\ handled.replies = <<[ok |-> FALSE, text |-> "Connection error."]>>
    /\ handled.resp = [status |-> 500, body |-> [error |-> "Connection error."]]

\* C12 as stated: for a non-empty message sequence the messages sent to the
\* backend are the request's messages, all of them, in order, with their
\* roles and contents.
C12_HistoryForwardedVerbatim ==
    (ChatHandled /\ handled.body.messages # <<>>) =>
        \A i \in DOMAIN handled.sent :
            handled.sent[i].messages = handled.body.messages

\* C12 as amended: for a non-empty message sequence the backend is sent one
\* message, with role "user" and the content of the request's first message
\* ("nothing" when that message has no content); the other messages and the
\* roles are not forwarded.
C12_OnlyFirstContentForwarded ==
    (ChatHandled /\ handled.body.messages # <<>>) =>
        \A i \in DOMAIN handled.sent :
            LET first == handled.body.messages[1] IN
            handled.sent[i].messages =
                <<[role |-> "user",
                   content |-> IF "content" \in DOMAIN first
                               THEN first.content ELSE "nothing"]>>

\* A system message followed by a user message: only the system message's
\* text goes out, as a user message.
C12_Witness ==
    /\ ChatHandled
    /\ Len(handled.body.messages) = 2
    /\ handled.body.messages[2].content = "hi"
    /\ Len(handled.sent) = 1
    /\ handled.sent[1].messages = <<[role |-> "user", content |-> "be brief"]>>

\* The registry resolves the model of the handled chat request.
Resolvable ==
    IF handled.body.model.given /\ handled.body.model.id # ""
    THEN handled.body.model.id \in KeySet(MODEL_CLIENT_MAP)
    ELSE MODEL_CLIENT_MAP # <<>>

\* C17: a chat request with no message, or whose first message has no
\* content, is not refused for that: whenever its model resolves, one call
\* goes out, carrying the single user message "nothing".
C17_PlaceholderForMissingText ==
    (/\ ChatHandled
     /\ \/ handled.body.messages = <<>>
        \/ "content" \notin DOMAIN handled.body.messages[1]) =>
        /\ Resolvable => Len(handled.sent) = 1
        /\ \A i \in DOMAIN handled.sent :
              handled.sent[i].messages = <<[role |-> "user", content |-> "nothing"]>>

\* An empty message sequence was dispatched with the placeholder.
C17_Witness ==
    /\ ChatHandled
    /\ handled.body.messages = <<>>
    /\ handled.resp.status = 200
    /\ Len(handled.sent) = 1
    /\ handled.sent[1].messages = <<[role |-> "user", content |-> "nothing"]>>

-----------------------------------------------------------------------------
(* Properties of the registry's keys and of the endpoint list *)

\* The ids the successful listing at position p reported.
ReportedAt(p) == IF probed[p].ok THEN Range(probed[p].models) ELSE {}

\* C13: after a call of initialize_model_map every key of the registry is a
\* model id that a successfully probed endpoint of that call reported, or
\* "<name>:default" for an endpoint of that call whose probe failed.
C13_KeysComeFromThisCall ==
    (pc = "done" /\ calls >= 1) =>
        \A k \in KeySet(MODEL_CLIENT_MAP) :
            \/ \E p \in DOMAIN probed : k \in ReportedAt(p)
            \/ \E p \in DOMAIN probed :
                  ~probed[p].ok /\ k = ENDPOINTS[p].name \o ":default"

\* A call that ended with keys of both kinds.
C13_Witness ==
    /\ pc = "done"
    /\ Len(probed) = 3
    /\ probed[1] = Listed(<<"m1", "m2">>)
    /\ ~probed[2].ok
    /\ {"m1", "m2", "endpoint_1:default"} \subseteq KeySet(MODEL_CLIENT_MAP)

Blank(id) == id \in {"", " "}

\* C16 as stated: no key of the registry is empty or made of whitespace
\* only, and a skipped blank id does not keep the other ids of the same
\* listing out of the registry.
C16_BlankIdsAreSkipped ==
    (pc = "done" /\ calls >= 1) =>
        /\ \A k \in KeySet(MODEL_CLIENT_MAP) : ~Blank(k)
        /\ \A p \in DOMAIN probed :
              \A id \in ReportedAt(p) : ~Blank(id) => id \in KeySet(MODEL_CLIENT_MAP)

\* The indices whose MODEL_ENDPOINT_<i> is set.
SetIndices == {i \in DOMAIN environ : environ[i] # ""}

\* The k-th smallest of the set indices.
NthSet(k) ==
    CHOOSE i \in SetIndices : Cardinality({j \in SetIndices : j < i}) = k - 1

\* C18: the endpoint list holds one descriptor for each index that is set,
\* in ascending order of the indices, each named "endpoint_<its own index>"
\* and carrying the address of that index.
C18_EndpointsInIndexOrder ==
    /\ Len(ENDPOINTS) = Cardinality(SetIndices)
    /\ \A k \in DOMAIN ENDPOINTS :
          /\ ENDPOINTS[k].name = "endpoint_" \o ToString(NthSet(k))
          /\ ENDPOINTS[k].base_url = environ[NthSet(k)]

\* Index 1 is not set: the descriptor at position 2 is named after index 2.
C18_Witness ==
    /\ SetIndices = {0, 2}
    /\ Len(ENDPOINTS) = 2
    /\ ENDPOINTS[1].name = "endpoint_0"
    /\ ENDPOINTS[2].name = "endpoint_2"
    /\ pc = "done"

\* C19 as stated: a chat request whose model field is a string, the empty
\* string included, is either dispatched with exactly that model id or
\* refused with ModelNotFound.
C19_GivenModelIsNeverReplaced ==
    (ChatHandled /\ handled.body.model.given) =>
        \/ handled.sent = <<>> /\ handled.resp = ModelNotFound
        \/ /\ Len(handled.sent) = 1
           /\ handled.sent[1].model = handled.body.model.id

\* C20 as stated: within one call of initialize_model_map, an entry of the
\* registry keeps its position, its key and its client in every later step
\* of that call.
C20_InsertedHandleIsKept ==
    [][calls' = calls =>
          \A i \in DOMAIN MODEL_CLIENT_MAP :
              /\ i \in DOMAIN MODEL_CLIENT_MAP'
              /\ MODEL_CLIENT_MAP'[i] = MODEL_CLIENT_MAP[i]]_vars

-----------------------------------------------------------------------------
(* Properties of rebuilding and of reading the registry *)

\* The registry built from nothing by the outcomes of the running call, from
\* position p on.
RECURSIVE FoldOutcomes(_, _)
FoldOutcomes(map, p) ==
    IF p > Len(probed) THEN map
    ELSE FoldOutcomes(ProcessEndpoint(map, ENDPOINTS[p], probed[p], calls), p + 1)

\* Key k is one the outcomes of the running call produce.
ProducedNow(k) ==
    \E p \in DOMAIN probed :
        IF probed[p].ok THEN k # "" /\ k \in Range(probed[p].models)
        ELSE k = ENDPOINTS[p].name \o ":default"

\* C14: each call of initialize_model_map rebuilds the registry wholesale:
\* after it the registry is what that call's probe outcomes alone build from
\* an empty registry, every client is one that call created, and a key of
\* the registry before the call is present only if the call produced it again.
C14_RebuildIsWholesale ==
    (pc = "done" /\ calls >= 1) =>
        /\ MODEL_CLIENT_MAP = FoldOutcomes(<<>>, 1)
        /\ \A i \in DOMAIN MODEL_CLIENT_MAP : MODEL_CLIENT_MAP[i].client.call = calls
        /\ \A k \in KeySet(prev.map) :
              k \in KeySet(MODEL_CLIENT_MAP) => ProducedNow(k)

\* A second call that dropped a key of the first and kept another.
C14_Witness ==
    /\ pc = "done"
    /\ calls = 2
    /\ "m1" \in KeySet(prev.map) \ KeySet(MODEL_CLIENT_MAP)
    /\ "m2" \in KeySet(prev.map) \cap KeySet(MODEL_CLIENT_MAP)

\* C15: handling a chat request or a list-models request leaves the
\* registry as it was: its keys, their clients and their order.
C15_RequestsLeaveRegistryAlone ==
    [][handled' # NoRequest => MODEL_CLIENT_MAP' = MODEL_CLIENT_MAP]_vars

\* A chat request that failed at the backend, with the registry still
\* holding the model it was sent to.
C15_Witness ==
    /\ ChatHandled
    /\ handled.resp.status = 500
    /\ Len(handled.sent) = 1
    /\ handled.sent[1].model \in KeySet(MODEL_CLIENT_MAP)

=============================================================================
